---- MODULE Spec2Model ----
(***************************************************************************)
(* IndiStream client: the upload pipeline of HomeScreen                    *)
(* (src/app/(tabs)/index.tsx) together with the UploadModal that drives it *)
(* (src/components/uploadModal.tsx).                                       *)
(*                                                                         *)
(* Every handler runs on the single JS thread: the synchronous part of a   *)
(* handler between two awaits is one atomic action; the return of an       *)
(* awaited remote call is a separate action that runs the continuation up  *)
(* to the next await.  React state written by a handler is what the next   *)
(* handler reads.                                                          *)
(***************************************************************************)
EXTENDS Integers, Sequences, FiniteSets, TLC

VARIABLES
    showUploadModal,   \* index.tsx:181
    uploadTitle,       \* index.tsx:182, a sequence of characters
    selectedVideo,     \* index.tsx:183, a file uri or NoFile (null)
    uploading,         \* index.tsx:184
    uploadProgress,    \* index.tsx:185
    videos,            \* index.tsx:176, the displayed catalog snapshot
    loading,           \* index.tsx:177
    refreshing,        \* index.tsx:178
    fetches,           \* getReadyVideos calls in flight (loadVideos awaiting)
    attempts,          \* the handleUpload invocations: one record per pipeline slot
    issued,            \* server: number of upload targets handed out
    catalog,           \* server: storage keys with committed metadata
    lastAlert,         \* the last Alert.alert raised
    deletes,           \* index.tsx:310, ids of the deleteVideo calls in flight
    resolves,          \* index.tsx:289, ids of the getPlaybackURL calls in flight
    status,            \* video-player.tsx:57, the last playback status received
    isPlaying,         \* video-player.tsx:58
    isLoading,         \* video-player.tsx:59
    showControls,      \* video-player.tsx:60
    playbackRate,      \* video-player.tsx:62, in hundredths
    isMuted,           \* video-player.tsx:63
    controlsOpacity,   \* video-player.tsx:68, the target of the opacity transition
    progressValue,     \* video-player.tsx:69, the progress ratio drawn, a fraction
    progressBarWidth,  \* video-player.tsx:72, the measured width of the seek track
    timers,            \* the pending setTimeout timers of the player
    timeout,           \* video-player.tsx:88, the handle the last effect run holds
    commands,          \* engine commands awaiting their acknowledgement
    unhandled,         \* a promise of a player handler was rejected and not caught
    reported           \* the play intent of the last loaded status update

homeVars == <<showUploadModal, uploadTitle, selectedVideo, uploading, uploadProgress,
              videos, loading, refreshing, fetches, attempts, issued, catalog,
              lastAlert>>
requestVars == <<deletes, resolves>>
seekVars == <<progressValue, progressBarWidth>>
playerVars == <<status, isPlaying, isLoading, showControls, playbackRate, isMuted,
                controlsOpacity, timers, timeout, commands, unhandled, reported,
                seekVars>>

vars == <<homeVars, requestVars, playerVars>>

screenVars == <<showUploadModal, uploadTitle, selectedVideo, uploading, uploadProgress>>
catalogVars == <<videos, loading, refreshing, fetches>>
serverVars == <<issued, catalog>>

(***************************************************************************)
(* Bounds of the model.                                                    *)
(***************************************************************************)
MaxPipelines == 2     \* handleUpload invocations that can be in flight together
MaxTargets == 2       \* upload targets the server hands out before it only fails
MaxRequests == 1      \* calls of one catalog operation that can be in flight together
MaxCommands == 2      \* engine commands that can await their acknowledgement together
MaxTimers == 2        \* timer handles the runtime hands out before it reuses one

(***************************************************************************)
(* Input domains.                                                          *)
(***************************************************************************)
NoFile == "null"
Files == {"file1", "file2"}
\* Titles typed into the dialog: empty, blank, plain, padded with blanks.
Titles == {<<>>, <<" ">>, <<"a">>, <<" ", "a", " ">>, <<"b", " ">>}
TransferStatuses == {200, 204, 500}
\* FileSystem.uploadAsync either resolves with a status or rejects (threw).
TransferOutcomes ==
    {[threw |-> FALSE, status |-> st] : st \in TransferStatuses}
        \cup {[threw |-> TRUE, status |-> 0]}

(***************************************************************************)
(* String.prototype.trim on a sequence of characters.                      *)
(***************************************************************************)
IsSpace(c) == c = " "

RECURSIVE TrimStart(_)
TrimStart(s) ==
    IF s = <<>> THEN <<>>
    ELSE IF IsSpace(Head(s)) THEN TrimStart(Tail(s)) ELSE s

RECURSIVE TrimEnd(_)
TrimEnd(s) ==
    IF s = <<>> THEN <<>>
    ELSE IF IsSpace(s[Len(s)]) THEN TrimEnd(SubSeq(s, 1, Len(s) - 1)) ELSE s

Trim(s) == TrimEnd(TrimStart(s))

(***************************************************************************)
(* videoAPI: when each remote call throws.                                 *)
(***************************************************************************)
\* getUploadURL throws unless response.ok.
getUploadURLThrows(ok) == ~ok

\* Variant: the status of the response is never looked at.
uploadVideoFileIgnoresStatus(r) == r.threw

\* Variant: any 2xx status passes, as response.ok would have it.
uploadVideoFileAccepts2xx(r) == r.threw \/ r.status < 200 \/ r.status >= 300

\* uploadVideoFile throws when uploadAsync rejects or the status is not 200.
uploadVideoFileThrows(r) == r.threw \/ r.status # 200

\* createVideoMetadata throws unless response.ok.
createVideoMetadataThrows(ok) == ~ok

\* getReadyVideos throws unless response.ok.
getReadyVideosThrows(ok) == ~ok

(***************************************************************************)
(* Upload attempts.                                                        *)
(***************************************************************************)
NoData == [url |-> 0, filename |-> 0]
NoTransfer == [threw |-> FALSE, status |-> 0]

Call(op, url, file, title, filename) ==
    [op |-> op, url |-> url, file |-> file, title |-> title, filename |-> filename]

AcquireCall == Call("acquire", 0, NoFile, <<>>, 0)
TransferCall(url, file) == Call("transfer", url, file, <<>>, 0)
CommitCall(title, filename) == Call("commit", 0, NoFile, title, filename)

Slots == 1..MaxPipelines

\* The storage keys the server hands out; a video is known by its key.
Keys == 1..MaxTargets

\* A slot no handleUpload invocation has used yet.
Idle ==
    [pc |-> "idle", file |-> NoFile, title |-> <<>>, uploadData |-> NoData,
     transfer |-> NoTransfer, failedAt |-> "none", calls |-> <<>>, log |-> <<>>,
     alert |-> "none", refreshes |-> 0]

CallOps(a) == [i \in 1..Len(attempts[a].calls) |-> attempts[a].calls[i].op]

InFlightPcs == {"acquire", "transfer", "commit"}
InFlight == {a \in Slots : attempts[a].pc \in InFlightPcs}

\* The slot the next invocation runs in: the first one not in flight.
FreeSlot == CHOOSE a \in Slots \ InFlight : \A b \in Slots \ InFlight : a <= b

\* Variant: the checkpoints before the transfer and before the commit are
\* exchanged.
CheckpointExchanged(point) ==
    CASE point = "start"    -> 0
      [] point = "acquire"  -> 20
      [] point = "transfer" -> 80
      [] point = "commit"   -> 40
      [] point = "success"  -> 100

\* The value handed to setUploadProgress at each point of handleUpload.
Checkpoint(point) ==
    CASE point = "start"    -> 0
      [] point = "acquire"  -> 20
      [] point = "transfer" -> 40
      [] point = "commit"   -> 80
      [] point = "success"  -> 100

\* Variant: the finally block clears the progress and leaves the flag.
FinallyLeavesUploading == [uploading |-> uploading, uploadProgress |-> 0]

\* Variant: the finally block clears the flag and leaves the progress.
FinallyKeepsProgress == [uploading |-> FALSE, uploadProgress |-> uploadProgress]

\* The finally block of handleUpload.
Finally == [uploading |-> FALSE, uploadProgress |-> 0]

\* Variant: the success path clears the form and leaves the dialog open.
FormAfterSuccessStaysOpen ==
    [uploadTitle |-> <<>>, selectedVideo |-> NoFile, showUploadModal |-> showUploadModal]

\* "Reset form and close modal" on the success path.
FormAfterSuccess == [uploadTitle |-> <<>>, selectedVideo |-> NoFile, showUploadModal |-> FALSE]

(***************************************************************************)
(* UploadModal: which controls are enabled.                                *)
(***************************************************************************)
\* Variant: the Upload button stays enabled while an upload runs.
UploadDisabledIgnoresUploading == selectedVideo = NoFile \/ Trim(uploadTitle) = <<>>

UploadDisabled == uploading \/ selectedVideo = NoFile \/ Trim(uploadTitle) = <<>>
CancelDisabled == uploading
SelectDisabled == uploading
TitleEditable == ~uploading

(***************************************************************************)
(* VideoPlayerScreen (src/app/video-player.tsx): the playback controller.  *)
(*                                                                         *)
(* A handler reads the state of the last render.  The continuation of a    *)
(* handler after an awaited engine command reads the state its handler     *)
(* captured when it was called.  An effect runs with the render that       *)
(* changed one of its dependencies: the render and its effects are part    *)
(* of the action that set the state.                                       *)
(***************************************************************************)
\* The delay of the controls-hide timer, in milliseconds.
HideDelay == 3000

\* The rates changePlaybackRate cycles through, in hundredths.
Rates == <<50, 75, 100, 125, 150, 200>>

\* useState<any>({}): no field is set, every test of one is false.
NoStatus ==
    [isLoaded |-> FALSE, shouldPlay |-> FALSE, positionMillis |-> 0, durationMillis |-> 0]

\* The playback statuses the engine reports: not loaded, or loaded with its
\* play intent.
Statuses ==
    {NoStatus} \cup {[isLoaded |-> TRUE, shouldPlay |-> sp,
                       positionMillis |-> 0, durationMillis |-> 0] : sp \in BOOLEAN}

TimerIds == 1..MaxTimers
Timers == [id : TimerIds, ms : {HideDelay}]

\* setTimeout hands out a handle no pending timer has.
FreshTimer(ts) ==
    LET free == TimerIds \ {t.id : t \in ts} IN
    IF free = {} THEN MaxTimers ELSE CHOOSE n \in free : \A m \in free : n <= m

\* Variant: the effect has no cleanup, a timer it armed is never cleared.
HideTimerEffectWithoutCleanup(ts, handle, show, busy) ==
    IF show /\ ~busy
    THEN [timers |-> ts \cup {[id |-> FreshTimer(ts), ms |-> HideDelay]},
          timeout |-> FreshTimer(ts)]
    ELSE [timers |-> ts, timeout |-> 0]

\* Variant: the cleanup runs only before the timer is armed again, a render
\* that hides the controls leaves the timer pending.
HideTimerEffectKeepsTimerOnHide(ts, handle, show, busy) ==
    LET cleared == {t \in ts : t.id # handle} IN
    IF show /\ ~busy
    THEN [timers |-> cleared \cup {[id |-> FreshTimer(cleared), ms |-> HideDelay]},
          timeout |-> FreshTimer(cleared)]
    ELSE [timers |-> ts, timeout |-> handle]

\* Variant: the timer is armed whether or not the video is loading.
HideTimerEffectWhileLoading(ts, handle, show, busy) ==
    LET cleared == {t \in ts : t.id # handle} IN
    IF show
    THEN [timers |-> cleared \cup {[id |-> FreshTimer(cleared), ms |-> HideDelay]},
          timeout |-> FreshTimer(cleared)]
    ELSE [timers |-> cleared, timeout |-> 0]

\* The auto-hide effect, run again: the cleanup of the previous run clears
\* the timer whose handle that run holds, then the timer is armed if the
\* controls are shown and the video is not loading.  ts are the pending
\* timers, handle the handle of the previous run (0 if it armed none).
HideTimerEffect(ts, handle, show, busy) ==
    LET cleared == {t \in ts : t.id # handle} IN
    IF show /\ ~busy
    THEN [timers |-> cleared \cup {[id |-> FreshTimer(cleared), ms |-> HideDelay]},
          timeout |-> FreshTimer(cleared)]
    ELSE [timers |-> cleared, timeout |-> 0]

\* Variant: the effect depends on showControls alone.
RenderOnShowControlsOnly(ts, show, busy) ==
    IF show # showControls
    THEN HideTimerEffect(ts, timeout, show, busy)
    ELSE [timers |-> ts, timeout |-> timeout]

\* The render after a handler: the effect runs again only if showControls or
\* isLoading changed.
Render(ts, show, busy) ==
    IF show # showControls \/ busy # isLoading
    THEN HideTimerEffect(ts, timeout, show, busy)
    ELSE [timers |-> ts, timeout |-> timeout]

\* Fractions: what the division of two integers gives, in lowest terms.
RECURSIVE GCD(_, _)
GCD(a, b) == IF b = 0 THEN a ELSE GCD(b, a % b)

Abs(n) == IF n < 0 THEN 0 - n ELSE n

Ratio(n, d) ==
    LET g == GCD(Abs(n), d) IN [num |-> n \div g, den |-> d \div g]

RatLeq(a, b) == a.num * b.den <= b.num * a.den
RatMax(a, b) == IF RatLeq(a, b) THEN b ELSE a
RatMin(a, b) == IF RatLeq(a, b) THEN a ELSE b
RatTimes(a, k) == Ratio(a.num * k, a.den)

\* The progress effect after the render of status ps: it runs when the
\* position or the duration changed and writes the ratio only if both are
\* truthy (neither is 0 or missing).
ProgressEffect(ps) ==
    IF ps.positionMillis # status.positionMillis \/ ps.durationMillis # status.durationMillis
    THEN IF ps.durationMillis # 0 /\ ps.positionMillis # 0
         THEN Ratio(ps.positionMillis, ps.durationMillis)
         ELSE progressValue
    ELSE progressValue

\* Number.prototype.toString of a natural number, as a sequence of characters.
Digits == <<"0", "1", "2", "3", "4", "5", "6", "7", "8", "9">>

RECURSIVE NumberToString(_)
NumberToString(n) ==
    IF n < 10 THEN <<Digits[n + 1]>>
    ELSE Append(NumberToString(n \div 10), Digits[(n % 10) + 1])

\* String.prototype.padStart with a pad of one character.
RECURSIVE PadStart(_, _, _)
PadStart(s, len, c) == IF Len(s) >= len THEN s ELSE PadStart(<<c>> \o s, len, c)

\* Variant: the seconds are not padded.
formatTimeUnpadded(millis) ==
    LET totalSeconds == millis \div 1000
        minutes == totalSeconds \div 60
        seconds == totalSeconds % 60
    IN  NumberToString(minutes) \o <<":">> \o NumberToString(seconds)

formatTime(millis) ==
    LET totalSeconds == millis \div 1000
        minutes == totalSeconds \div 60
        seconds == totalSeconds % 60
    IN  NumberToString(minutes) \o <<":">> \o PadStart(NumberToString(seconds), 2, "0")

\* The two time labels of the seek bar.
PositionText ==
    IF status.positionMillis # 0 THEN formatTime(status.positionMillis)
    ELSE <<"0", ":", "0", "0">>
DurationText ==
    IF status.durationMillis # 0 THEN formatTime(status.durationMillis)
    ELSE <<"0", ":", "0", "0">>

\* An engine command in flight.  arg is what its continuation needs: the
\* isPlaying its handler captured (pause, play), the rate sent (setRate), the
\* mute flag sent (setIsMuted); flags are 1 and 0.
Command(op, arg) == [op |-> op, arg |-> arg, den |-> 1]
Flag(b) == IF b THEN 1 ELSE 0
ToggleOps == {"pause", "play"}

\* A setPositionAsync command: its position is a fraction of milliseconds.
SeekCommand(r) == [op |-> "setPosition", arg |-> r.num, den |-> r.den]

\* Math.min(Math.max(touchX / progressBarWidth, 0), 1)
SeekRatio(x, w) == RatMin(RatMax(Ratio(x, w), Ratio(0, 1)), Ratio(1, 1))

\* seekTo: the commands it issues for a ratio, under status st.
seekTo(position, st) ==
    IF st.isLoaded /\ st.durationMillis # 0
    THEN <<SeekCommand(RatTimes(position, st.durationMillis))>>
    ELSE <<>>

\* Variant: the seek is taken relative to the position played.
SeekRequestFromPosition(x, w, st) ==
    IF w = 0 \/ ~st.isLoaded \/ st.durationMillis = 0
    THEN <<>>
    ELSE <<SeekCommand(Ratio(st.positionMillis * w + x * st.durationMillis, w))>>

\* Variant: the ratio is not clamped.
SeekRequestUnclamped(x, w, st) ==
    IF w = 0 \/ ~st.isLoaded \/ st.durationMillis = 0
    THEN <<>>
    ELSE seekTo(Ratio(x, w), st)

\* Variant: a track that was not measured is taken to be one pixel wide.
SeekRequestUnmeasured(x, w, st) ==
    IF ~st.isLoaded \/ st.durationMillis = 0
    THEN <<>>
    ELSE seekTo(SeekRatio(x, IF w = 0 THEN 1 ELSE w), st)

\* handleSeek: the commands a tap at offset x issues, with a track measured
\* w wide, under status st.
SeekRequest(x, w, st) ==
    IF w = 0 \/ ~st.isLoaded \/ st.durationMillis = 0
    THEN <<>>
    ELSE seekTo(SeekRatio(x, w), st)

\* Array.prototype.indexOf on Rates: the 0-based index, -1 if absent.
IndexOf(r) ==
    IF \E k \in 1..Len(Rates) : Rates[k] = r
    THEN (CHOOSE k \in 1..Len(Rates) : Rates[k] = r) - 1
    ELSE 0 - 1

\* Variant: the last rate is not followed by the first.
NextRateWithoutWrap(r) ==
    Rates[IF IndexOf(r) + 2 > Len(Rates) THEN Len(Rates) ELSE IndexOf(r) + 2]

\* rates[(currentIndex + 1) % rates.length]
NextRate(r) == Rates[((IndexOf(r) + 1) % Len(Rates)) + 1]

\* The state of the component after its first render and its effects.
PlayerInit ==
    /\ status = NoStatus
    /\ isPlaying = TRUE
    /\ isLoading = TRUE
    /\ showControls = TRUE
    /\ playbackRate = 100
    /\ isMuted = FALSE
    /\ controlsOpacity = 1
    /\ progressValue = Ratio(0, 1)
    /\ progressBarWidth = 0
    /\ timers = HideTimerEffect({}, 0, TRUE, TRUE).timers
    /\ timeout = HideTimerEffect({}, 0, TRUE, TRUE).timeout
    /\ commands = <<>>
    /\ unhandled = FALSE
    /\ reported = "none"

\* Variant: the tap is not ignored while the video loads.
handleScreenTapWhileLoading ==
    /\ showControls' = ~showControls
    /\ controlsOpacity' = IF showControls THEN 0 ELSE 1
    /\ timers' = Render(timers, ~showControls, isLoading).timers
    /\ timeout' = Render(timers, ~showControls, isLoading).timeout
    /\ UNCHANGED <<status, isPlaying, isLoading, playbackRate, isMuted,
                   commands, unhandled, reported>>
    /\ UNCHANGED <<homeVars, requestVars, seekVars>>

\* Tap on the player surface.
handleScreenTap ==
    IF isLoading
    THEN UNCHANGED vars
    ELSE /\ showControls' = ~showControls
         /\ controlsOpacity' = IF showControls THEN 0 ELSE 1
         /\ timers' = Render(timers, ~showControls, isLoading).timers
         /\ timeout' = Render(timers, ~showControls, isLoading).timeout
         /\ UNCHANGED <<status, isPlaying, isLoading, playbackRate, isMuted,
                        commands, unhandled, reported>>
         /\ UNCHANGED <<homeVars, requestVars, seekVars>>

\* The callback of the hide timer t runs.
TimerFires(t) ==
    /\ t \in timers
    /\ showControls' = FALSE
    /\ controlsOpacity' = 0
    /\ timers' = Render(timers \ {t}, FALSE, isLoading).timers
    /\ timeout' = Render(timers \ {t}, FALSE, isLoading).timeout
    /\ UNCHANGED <<status, isPlaying, isLoading, playbackRate, isMuted,
                   commands, unhandled, reported>>
    /\ UNCHANGED <<homeVars, requestVars, seekVars>>

\* onLayout of the seek track: its measured width.
handleProgressBarLayout(w) ==
    /\ w # progressBarWidth
    /\ progressBarWidth' = w
    /\ UNCHANGED <<status, isPlaying, isLoading, showControls, playbackRate, isMuted,
                   controlsOpacity, timers, timeout, commands, unhandled, reported,
                   progressValue>>
    /\ UNCHANGED <<homeVars, requestVars>>

\* Tap on the seek track at offset x: handleSeek and seekTo up to the await.
handleSeek(x) ==
    IF SeekRequest(x, progressBarWidth, status) = <<>>
    THEN UNCHANGED vars
    ELSE /\ Len(commands) < MaxCommands
         /\ commands' = commands \o SeekRequest(x, progressBarWidth, status)
         /\ UNCHANGED <<status, isPlaying, isLoading, showControls, playbackRate,
                        isMuted, controlsOpacity, timers, timeout, unhandled, reported>>
         /\ UNCHANGED <<homeVars, requestVars, seekVars>>

\* Variant: the transport flag follows shouldPlay of every status, loaded or not.
onPlaybackStatusUpdateUnguarded(ps) ==
    /\ status' = ps
    /\ isLoading' = IF ps.isLoaded THEN FALSE ELSE isLoading
    /\ isPlaying' = ps.shouldPlay
    /\ reported' = IF ps.isLoaded
                   THEN (IF ps.shouldPlay THEN "play" ELSE "pause")
                   ELSE reported
    /\ timers' = Render(timers, showControls, isLoading').timers
    /\ timeout' = Render(timers, showControls, isLoading').timeout
    /\ progressValue' = ProgressEffect(ps)
    /\ UNCHANGED <<showControls, playbackRate, isMuted, controlsOpacity,
                   commands, unhandled, progressBarWidth>>
    /\ UNCHANGED <<homeVars, requestVars>>

\* Variant: a loaded status ends the loading and leaves the transport flag.
onPlaybackStatusUpdateKeepsFlag(ps) ==
    /\ status' = ps
    /\ isLoading' = IF ps.isLoaded THEN FALSE ELSE isLoading
    /\ reported' = IF ps.isLoaded
                   THEN (IF ps.shouldPlay THEN "play" ELSE "pause")
                   ELSE reported
    /\ timers' = Render(timers, showControls, isLoading').timers
    /\ timeout' = Render(timers, showControls, isLoading').timeout
    /\ progressValue' = ProgressEffect(ps)
    /\ UNCHANGED <<isPlaying, showControls, playbackRate, isMuted, controlsOpacity,
                   commands, unhandled, progressBarWidth>>
    /\ UNCHANGED <<homeVars, requestVars>>

\* Variant: a status that is not loaded puts the player back into loading.
onPlaybackStatusUpdateTracksLoaded(ps) ==
    /\ status' = ps
    /\ isLoading' = ~ps.isLoaded
    /\ isPlaying' = IF ps.isLoaded THEN ps.shouldPlay ELSE isPlaying
    /\ reported' = IF ps.isLoaded
                   THEN (IF ps.shouldPlay THEN "play" ELSE "pause")
                   ELSE reported
    /\ timers' = Render(timers, showControls, isLoading').timers
    /\ timeout' = Render(timers, showControls, isLoading').timeout
    /\ progressValue' = ProgressEffect(ps)
    /\ UNCHANGED <<showControls, playbackRate, isMuted, controlsOpacity,
                   commands, unhandled, progressBarWidth>>
    /\ UNCHANGED <<homeVars, requestVars>>

\* The engine reports the playback status ps.  reported keeps the play
\* intent of the last loaded status since the last acknowledged toggle.
onPlaybackStatusUpdate(ps) ==
    /\ status' = ps
    /\ IF ps.isLoaded
       THEN /\ isLoading' = FALSE
            /\ isPlaying' = (IF ~ps.shouldPlay THEN FALSE ELSE TRUE)
            /\ reported' = IF ps.shouldPlay THEN "play" ELSE "pause"
       ELSE UNCHANGED <<isLoading, isPlaying, reported>>
    /\ timers' = Render(timers, showControls, isLoading').timers
    /\ timeout' = Render(timers, showControls, isLoading').timeout
    /\ progressValue' = ProgressEffect(ps)
    /\ UNCHANGED <<showControls, playbackRate, isMuted, controlsOpacity,
                   commands, unhandled, progressBarWidth>>
    /\ UNCHANGED <<homeVars, requestVars>>

\* Variant: the toggle is not guarded by the loaded status.
togglePlayPauseUnguarded ==
    /\ Len(commands) < MaxCommands
    /\ commands' = Append(commands,
                          Command(IF isPlaying THEN "pause" ELSE "play", Flag(isPlaying)))
    /\ UNCHANGED <<status, isPlaying, isLoading, showControls, playbackRate,
                   isMuted, controlsOpacity, timers, timeout, unhandled, reported>>
    /\ UNCHANGED <<homeVars, requestVars, seekVars>>

\* Play/pause button: togglePlayPause up to its await.
togglePlayPause ==
    IF status.isLoaded
    THEN /\ Len(commands) < MaxCommands
         /\ commands' = Append(commands,
                               Command(IF isPlaying THEN "pause" ELSE "play", Flag(isPlaying)))
         /\ UNCHANGED <<status, isPlaying, isLoading, showControls, playbackRate,
                        isMuted, controlsOpacity, timers, timeout, unhandled, reported>>
         /\ UNCHANGED <<homeVars, requestVars, seekVars>>
    ELSE UNCHANGED vars

\* Rate button: changePlaybackRate up to its await.
changePlaybackRate ==
    /\ playbackRate' = NextRate(playbackRate)
    /\ IF status.isLoaded
       THEN /\ Len(commands) < MaxCommands
            /\ commands' = Append(commands, Command("setRate", NextRate(playbackRate)))
       ELSE UNCHANGED commands
    /\ UNCHANGED <<status, isPlaying, isLoading, showControls, isMuted,
                   controlsOpacity, timers, timeout, unhandled, reported>>
    /\ UNCHANGED <<homeVars, requestVars, seekVars>>

\* Variant: the flag sent to the engine is the current one.
toggleMuteSendsCurrent ==
    IF status.isLoaded
    THEN /\ Len(commands) < MaxCommands
         /\ commands' = Append(commands, Command("setIsMuted", Flag(isMuted)))
         /\ UNCHANGED <<status, isPlaying, isLoading, showControls, playbackRate,
                        isMuted, controlsOpacity, timers, timeout, unhandled, reported>>
         /\ UNCHANGED <<homeVars, requestVars, seekVars>>
    ELSE UNCHANGED vars

\* Volume button: toggleMute up to its await.
toggleMute ==
    IF status.isLoaded
    THEN /\ Len(commands) < MaxCommands
         /\ commands' = Append(commands, Command("setIsMuted", Flag(~isMuted)))
         /\ UNCHANGED <<status, isPlaying, isLoading, showControls, playbackRate,
                        isMuted, controlsOpacity, timers, timeout, unhandled, reported>>
         /\ UNCHANGED <<homeVars, requestVars, seekVars>>
    ELSE UNCHANGED vars

\* Variant: the transport flag is set from the state of the last render.
CommandReturnsReadsLatest(i, ok) ==
    /\ i \in 1..Len(commands)
    /\ commands' = SubSeq(commands, 1, i - 1) \o SubSeq(commands, i + 1, Len(commands))
    /\ IF ~ok
       THEN /\ unhandled' = TRUE
            /\ UNCHANGED <<isPlaying, isMuted, reported>>
       ELSE /\ isPlaying' = IF commands[i].op \in ToggleOps
                            THEN ~isPlaying ELSE isPlaying
            /\ isMuted' = IF commands[i].op = "setIsMuted"
                          THEN commands[i].arg = 1 ELSE isMuted
            /\ reported' = IF commands[i].op \in ToggleOps THEN "none" ELSE reported
            /\ UNCHANGED unhandled
    /\ UNCHANGED <<status, isLoading, showControls, playbackRate, controlsOpacity,
                   timers, timeout>>
    /\ UNCHANGED <<homeVars, requestVars, seekVars>>

\* The engine settles the i-th command in flight.  Acknowledged, the handler
\* goes on with what it captured: setIsPlaying(!isPlaying), or
\* setIsMuted(!isMuted).  Rejected, the rejection leaves the handler, which
\* has no catch block, and nothing handles it.
CommandReturns(i, ok) ==
    /\ i \in 1..Len(commands)
    /\ commands' = SubSeq(commands, 1, i - 1) \o SubSeq(commands, i + 1, Len(commands))
    /\ IF ~ok
       THEN /\ unhandled' = TRUE
            /\ UNCHANGED <<isPlaying, isMuted, reported>>
       ELSE /\ isPlaying' = IF commands[i].op \in ToggleOps
                            THEN commands[i].arg = 0 ELSE isPlaying
            /\ isMuted' = IF commands[i].op = "setIsMuted"
                          THEN commands[i].arg = 1 ELSE isMuted
            /\ reported' = IF commands[i].op \in ToggleOps THEN "none" ELSE reported
            /\ UNCHANGED unhandled
    /\ UNCHANGED <<status, isLoading, showControls, playbackRate, controlsOpacity,
                   timers, timeout>>
    /\ UNCHANGED <<homeVars, requestVars, seekVars>>

(***************************************************************************)
(* Init: HomeScreen after its first render and its mount effect, which     *)
(* calls loadVideos() (loading is already true, one fetch is in flight).   *)
(***************************************************************************)
Init ==
    /\ showUploadModal = FALSE
    /\ uploadTitle = <<>>
    /\ selectedVideo = NoFile
    /\ uploading = FALSE
    /\ uploadProgress = 0
    /\ videos = {}
    /\ loading = TRUE
    /\ refreshing = FALSE
    /\ fetches = 1
    /\ attempts = [a \in Slots |-> Idle]
    /\ issued = 0
    /\ catalog = {}
    /\ lastAlert = "none"
    /\ deletes = <<>>
    /\ resolves = <<>>
    /\ PlayerInit

(***************************************************************************)
(* Dialog events.                                                          *)
(***************************************************************************)
\* Header "add" button: setShowUploadModal(true).
OpenModal ==
    /\ ~showUploadModal
    /\ showUploadModal' = TRUE
    /\ UNCHANGED <<uploadTitle, selectedVideo, uploading, uploadProgress,
                   catalogVars, attempts, serverVars, lastAlert>>
    /\ UNCHANGED <<requestVars, playerVars>>

\* Variant: closing the dialog abandons the uploads in flight.
CloseModalCancels ==
    /\ showUploadModal
    /\ showUploadModal' = FALSE
    /\ attempts' = [a \in Slots |->
                        IF a \in InFlight THEN Idle ELSE attempts[a]]
    /\ UNCHANGED <<uploadTitle, selectedVideo, uploading, uploadProgress,
                   catalogVars, serverVars, lastAlert>>
    /\ UNCHANGED <<requestVars, playerVars>>

\* Variant: closing the dialog clears the form.
CloseModalResetsForm ==
    /\ showUploadModal
    /\ showUploadModal' = FALSE
    /\ uploadTitle' = <<>>
    /\ selectedVideo' = NoFile
    /\ UNCHANGED <<uploading, uploadProgress, catalogVars, attempts, serverVars,
                   lastAlert>>
    /\ UNCHANGED <<requestVars, playerVars>>

\* Close icon and onRequestClose: setShowUploadModal(false), never disabled.
CloseModal ==
    /\ showUploadModal
    /\ showUploadModal' = FALSE
    /\ UNCHANGED <<uploadTitle, selectedVideo, uploading, uploadProgress,
                   catalogVars, attempts, serverVars, lastAlert>>
    /\ UNCHANGED <<requestVars, playerVars>>

\* Cancel button: setShowUploadModal(false), disabled while uploading.
CancelModal ==
    /\ showUploadModal
    /\ ~CancelDisabled
    /\ showUploadModal' = FALSE
    /\ UNCHANGED <<uploadTitle, selectedVideo, uploading, uploadProgress,
                   catalogVars, attempts, serverVars, lastAlert>>
    /\ UNCHANGED <<requestVars, playerVars>>

\* onChangeText of the title input.
ChangeTitle(t) ==
    /\ showUploadModal
    /\ TitleEditable
    /\ t # uploadTitle
    /\ uploadTitle' = t
    /\ UNCHANGED <<showUploadModal, selectedVideo, uploading, uploadProgress,
                   catalogVars, attempts, serverVars, lastAlert>>
    /\ UNCHANGED <<requestVars, playerVars>>

\* Variant: a cancelled pick clears the selection.
selectVideoCancelClears(r) ==
    /\ showUploadModal
    /\ ~SelectDisabled
    /\ selectedVideo' = IF r \in Files THEN r
                        ELSE IF r = "cancelled" THEN NoFile ELSE selectedVideo
    /\ lastAlert' = IF r = "threw" THEN "select-error" ELSE lastAlert
    /\ UNCHANGED <<showUploadModal, uploadTitle, uploading, uploadProgress,
                   catalogVars, attempts, serverVars>>
    /\ UNCHANGED <<requestVars, playerVars>>

\* selectVideo: the document picker is a system dialog, nothing else runs
\* between the press and its result.  r is "cancelled", "threw" or a file.
selectVideo(r) ==
    /\ showUploadModal
    /\ ~SelectDisabled
    /\ selectedVideo' = IF r \in Files THEN r ELSE selectedVideo
    /\ lastAlert' = IF r = "threw" THEN "select-error" ELSE lastAlert
    /\ UNCHANGED <<showUploadModal, uploadTitle, uploading, uploadProgress,
                   catalogVars, attempts, serverVars>>
    /\ UNCHANGED <<requestVars, playerVars>>

(***************************************************************************)
(* loadVideos.                                                             *)
(***************************************************************************)
\* Pull-to-refresh on the list: loadVideos(true) up to its await.  The list
\* is rendered only when not loading, and it takes no second pull while its
\* refresh indicator is shown.
PullRefresh ==
    /\ ~loading
    /\ ~refreshing
    /\ refreshing' = TRUE
    /\ fetches' = fetches + 1
    /\ UNCHANGED <<screenVars, videos, loading, attempts, serverVars, lastAlert>>
    /\ UNCHANGED <<requestVars, playerVars>>

\* getReadyVideos returns: the continuation of loadVideos.  vs is the set of
\* ready videos the server lists (statuses change on the server on their own).
FetchReturns(ok, vs) ==
    /\ fetches > 0
    /\ vs \subseteq catalog
    /\ ok \/ vs = {}
    /\ fetches' = fetches - 1
    /\ IF getReadyVideosThrows(ok)
       THEN /\ lastAlert' = "load-error"
            /\ UNCHANGED videos
       ELSE /\ videos' = vs
            /\ UNCHANGED lastAlert
    /\ loading' = FALSE
    /\ refreshing' = FALSE
    /\ UNCHANGED <<screenVars, attempts, serverVars>>
    /\ UNCHANGED <<requestVars, playerVars>>

(***************************************************************************)
(* handleUpload.                                                           *)
(***************************************************************************)
\* Variant: the title is tested without trimming it.
InvalidSubmitUntrimmed(file, title) == file = NoFile \/ title = <<>>

\* The validation at the top of handleUpload.
InvalidSubmit(file, title) == file = NoFile \/ Trim(title) = <<>>

\* handleUpload from its call to its first await (getUploadURL).  The closure
\* keeps the selectedVideo and uploadTitle of the render it was created in.
handleUpload ==
    IF InvalidSubmit(selectedVideo, uploadTitle)
    THEN /\ lastAlert' = "validation-error"
         /\ UNCHANGED <<screenVars, catalogVars, attempts, serverVars>>
    ELSE /\ InFlight # Slots
         /\ uploading' = TRUE
         /\ uploadProgress' = Checkpoint("acquire")
         /\ attempts' = [attempts EXCEPT ![FreeSlot] =
               [pc |-> "acquire", file |-> selectedVideo, title |-> uploadTitle,
                uploadData |-> NoData, transfer |-> NoTransfer, failedAt |-> "none",
                calls |-> <<AcquireCall>>,
                log |-> <<Checkpoint("start"), Checkpoint("acquire")>>,
                alert |-> "none", refreshes |-> 0]]
         /\ UNCHANGED <<showUploadModal, uploadTitle, selectedVideo, catalogVars,
                        serverVars, lastAlert>>

\* The Upload button of the dialog.
PressUpload ==
    /\ showUploadModal
    /\ ~UploadDisabled
    /\ handleUpload
    /\ UNCHANGED <<requestVars, playerVars>>

\* Variant: the catch block clears the form as the success branch does.
UploadFailedClearsForm(a, phase, r) ==
    /\ attempts' = [attempts EXCEPT ![a].pc = "failed",
                                    ![a].failedAt = phase,
                                    ![a].transfer = r,
                                    ![a].alert = "error",
                                    ![a].log = Append(@, Finally.uploadProgress)]
    /\ lastAlert' = "upload-error"
    /\ uploading' = Finally.uploading
    /\ uploadProgress' = Finally.uploadProgress
    /\ uploadTitle' = <<>>
    /\ selectedVideo' = NoFile
    /\ UNCHANGED <<showUploadModal, catalogVars>>

\* Variant: a call that threw is issued once more before the attempt gives up.
UploadFailedRetries(a, phase, r) ==
    IF Len(attempts[a].calls) < 4
    THEN /\ attempts' = [attempts EXCEPT ![a].calls = Append(@, @[Len(@)])]
         /\ UNCHANGED <<screenVars, catalogVars, lastAlert>>
    ELSE /\ attempts' = [attempts EXCEPT ![a].pc = "failed",
                                         ![a].failedAt = phase,
                                         ![a].transfer = r,
                                         ![a].alert = "error",
                                         ![a].log = Append(@, 0)]
         /\ lastAlert' = "upload-error"
         /\ uploading' = FALSE
         /\ uploadProgress' = 0
         /\ UNCHANGED <<showUploadModal, uploadTitle, selectedVideo, catalogVars>>

\* catch and finally of handleUpload for attempt a, whose call of the given
\* phase threw; r is what the transfer returned, if it is the transfer.
UploadFailed(a, phase, r) ==
    /\ attempts' = [attempts EXCEPT ![a].pc = "failed",
                                    ![a].failedAt = phase,
                                    ![a].transfer = r,
                                    ![a].alert = "error",
                                    ![a].log = Append(@, Finally.uploadProgress)]
    /\ lastAlert' = "upload-error"
    /\ uploading' = Finally.uploading
    /\ uploadProgress' = Finally.uploadProgress
    /\ UNCHANGED <<showUploadModal, uploadTitle, selectedVideo, catalogVars>>

\* Variant: the attempt goes on with the target handed out before.
AcquireReturnsStaleTarget(a, ok) ==
    /\ attempts[a].pc = "acquire"
    /\ ok => issued < MaxTargets
    /\ IF getUploadURLThrows(ok)
       THEN /\ UploadFailed(a, "acquire", NoTransfer)
            /\ UNCHANGED serverVars
       ELSE LET data == [url |-> issued, filename |-> issued] IN
            /\ issued' = issued + 1
            /\ uploadProgress' = Checkpoint("transfer")
            /\ attempts' = [attempts EXCEPT
                  ![a].pc = "transfer",
                  ![a].uploadData = data,
                  ![a].calls = Append(@, TransferCall(data.url, attempts[a].file)),
                  ![a].log = Append(@, Checkpoint("transfer"))]
            /\ UNCHANGED <<showUploadModal, uploadTitle, selectedVideo, uploading,
                           catalogVars, catalog, lastAlert>>
    /\ UNCHANGED <<requestVars, playerVars>>

\* getUploadURL returns to attempt a.  The server hands out a fresh target
\* (url and storage key) per successful call, MaxTargets of them at most.
AcquireReturns(a, ok) ==
    /\ attempts[a].pc = "acquire"
    /\ ok => issued < MaxTargets
    /\ IF getUploadURLThrows(ok)
       THEN /\ UploadFailed(a, "acquire", NoTransfer)
            /\ UNCHANGED serverVars
       ELSE LET data == [url |-> issued + 1, filename |-> issued + 1] IN
            /\ issued' = issued + 1
            /\ uploadProgress' = Checkpoint("transfer")
            /\ attempts' = [attempts EXCEPT
                  ![a].pc = "transfer",
                  ![a].uploadData = data,
                  ![a].calls = Append(@, TransferCall(data.url, attempts[a].file)),
                  ![a].log = Append(@, Checkpoint("transfer"))]
            /\ UNCHANGED <<showUploadModal, uploadTitle, selectedVideo, uploading,
                           catalogVars, catalog, lastAlert>>
    /\ UNCHANGED <<requestVars, playerVars>>

\* FileSystem.uploadAsync returns r to attempt a.
TransferReturns(a, r) ==
    /\ attempts[a].pc = "transfer"
    /\ UNCHANGED serverVars
    /\ IF uploadVideoFileThrows(r)
       THEN UploadFailed(a, "transfer", r)
       ELSE /\ uploadProgress' = Checkpoint("commit")
            /\ attempts' = [attempts EXCEPT
                  ![a].pc = "commit",
                  ![a].transfer = r,
                  ![a].calls = Append(@, CommitCall(Trim(attempts[a].title),
                                                    attempts[a].uploadData.filename)),
                  ![a].log = Append(@, Checkpoint("commit"))]
            /\ UNCHANGED <<showUploadModal, uploadTitle, selectedVideo, uploading,
                           catalogVars, lastAlert>>
    /\ UNCHANGED <<requestVars, playerVars>>

\* createVideoMetadata returns to attempt a; on success the rest of the try
\* block, loadVideos() up to its await, and the finally block run.
CommitReturns(a, ok) ==
    /\ attempts[a].pc = "commit"
    /\ IF createVideoMetadataThrows(ok)
       THEN /\ UploadFailed(a, "commit", attempts[a].transfer)
            /\ UNCHANGED serverVars
       ELSE /\ catalog' = catalog \cup {attempts[a].uploadData.filename}
            /\ UNCHANGED issued
            /\ uploadTitle' = FormAfterSuccess.uploadTitle
            /\ selectedVideo' = FormAfterSuccess.selectedVideo
            /\ showUploadModal' = FormAfterSuccess.showUploadModal
            /\ lastAlert' = "upload-success"
            /\ loading' = TRUE
            /\ fetches' = fetches + 1
            /\ UNCHANGED <<videos, refreshing>>
            /\ uploading' = Finally.uploading
            /\ uploadProgress' = Finally.uploadProgress
            /\ attempts' = [attempts EXCEPT
                  ![a].pc = "done",
                  ![a].alert = "success",
                  ![a].refreshes = @ + 1,
                  ![a].log = @ \o <<Checkpoint("success"), Finally.uploadProgress>>]
    /\ UNCHANGED <<requestVars, playerVars>>

(***************************************************************************)
(* handleVideoPress and handleDeleteVideo.                                 *)
(***************************************************************************)
\* getPlaybackURL throws unless response.ok.
getPlaybackURLThrows(ok) == ~ok

\* deleteVideo throws unless response.ok.
deleteVideoThrows(ok) == ~ok

\* The cards of the list can be pressed while the list is rendered (not
\* loading) and the upload dialog does not cover it.
ListShown == ~loading /\ ~showUploadModal

\* Press on the card of video id: handleVideoPress up to its await.
handleVideoPress(id) ==
    /\ ListShown
    /\ id \in videos
    /\ Len(resolves) < MaxRequests
    /\ resolves' = Append(resolves, id)
    /\ UNCHANGED <<homeVars, deletes, playerVars>>

\* getPlaybackURL returns to the i-th call in flight: the url is shown in an
\* alert, or the catch block reports the failure.
PlaybackURLReturns(i, ok) ==
    /\ i \in 1..Len(resolves)
    /\ ok => resolves[i] \in catalog
    /\ resolves' = SubSeq(resolves, 1, i - 1) \o SubSeq(resolves, i + 1, Len(resolves))
    /\ lastAlert' = IF getPlaybackURLThrows(ok) THEN "playback-error" ELSE "playback-url"
    /\ UNCHANGED <<screenVars, catalogVars, attempts, serverVars, deletes, playerVars>>

\* Trash button of the card of video id: handleDeleteVideo raises the
\* confirmation alert; its Delete button calls deleteVideo, its Cancel button
\* does nothing.
handleDeleteVideo(id, choice) ==
    /\ ListShown
    /\ id \in videos
    /\ lastAlert' = "delete-confirm"
    /\ IF choice = "delete"
       THEN /\ Len(deletes) < MaxRequests
            /\ deletes' = Append(deletes, id)
       ELSE UNCHANGED deletes
    /\ UNCHANGED <<screenVars, catalogVars, attempts, serverVars, resolves, playerVars>>

\* Variant: the list is reloaded whether the deletion succeeded or not.
DeleteReturnsAlwaysReloads(i, ok) ==
    /\ i \in 1..Len(deletes)
    /\ ok => deletes[i] \in catalog
    /\ deletes' = SubSeq(deletes, 1, i - 1) \o SubSeq(deletes, i + 1, Len(deletes))
    /\ lastAlert' = IF deleteVideoThrows(ok) THEN "delete-error" ELSE "delete-success"
    /\ catalog' = IF deleteVideoThrows(ok) THEN catalog ELSE catalog \ {deletes[i]}
    /\ loading' = TRUE
    /\ fetches' = fetches + 1
    /\ UNCHANGED <<screenVars, videos, refreshing, attempts, issued, resolves, playerVars>>

\* deleteVideo returns to the i-th call in flight.  On success the server has
\* removed the video, the success alert is raised and loadVideos() runs up to
\* its await; on failure the catch block raises the error alert.
DeleteReturns(i, ok) ==
    /\ i \in 1..Len(deletes)
    /\ ok => deletes[i] \in catalog
    /\ deletes' = SubSeq(deletes, 1, i - 1) \o SubSeq(deletes, i + 1, Len(deletes))
    /\ IF deleteVideoThrows(ok)
       THEN /\ lastAlert' = "delete-error"
            /\ UNCHANGED <<catalogVars, catalog>>
       ELSE /\ catalog' = catalog \ {deletes[i]}
            /\ lastAlert' = "delete-success"
            /\ loading' = TRUE
            /\ fetches' = fetches + 1
            /\ UNCHANGED <<videos, refreshing>>
    /\ UNCHANGED <<screenVars, attempts, issued, resolves, playerVars>>

(***************************************************************************)
(* Specifications.                                                         *)
(***************************************************************************)
Environment ==
    \/ OpenModal
    \/ CloseModal
    \/ CancelModal
    \/ \E t \in Titles : ChangeTitle(t)
    \/ \E r \in Files \cup {"cancelled", "threw"} : selectVideo(r)
    \/ PullRefresh
    \/ \E ok \in BOOLEAN : \E vs \in SUBSET catalog : FetchReturns(ok, vs)
    \/ \E a \in Slots : \E ok \in BOOLEAN : AcquireReturns(a, ok)
    \/ \E a \in Slots : \E r \in TransferOutcomes : TransferReturns(a, r)
    \/ \E a \in Slots : \E ok \in BOOLEAN : CommitReturns(a, ok)

\* The screen as the user drives it: handleUpload runs only from the
\* dialog's Upload button.
Next == PressUpload \/ Environment

Spec == Init /\ [][Next]_vars

\* The coordinator driven directly: handleUpload is called whatever the
\* dialog shows, by a caller that starts no upload while one is in flight.
Submit ==
    /\ ~uploading
    /\ handleUpload
    /\ UNCHANGED <<requestVars, playerVars>>

NextSubmit == Submit \/ Environment

SpecSubmit == Init /\ [][NextSubmit]_vars

\* Every remote call of the pipeline eventually returns.
Fairness ==
    /\ WF_vars(\E a \in Slots : \E ok \in BOOLEAN : AcquireReturns(a, ok))
    /\ WF_vars(\E a \in Slots : \E r \in TransferOutcomes : TransferReturns(a, r))
    /\ WF_vars(\E a \in Slots : \E ok \in BOOLEAN : CommitReturns(a, ok))

FairSpec == Init /\ [][Next]_vars /\ Fairness

\* The catalog of the screen: the list, its refresh, and the presses on its
\* cards, against a server that already holds any of the videos.
InitCatalog ==
    /\ showUploadModal = FALSE
    /\ uploadTitle = <<>>
    /\ selectedVideo = NoFile
    /\ uploading = FALSE
    /\ uploadProgress = 0
    /\ videos = {}
    /\ loading = TRUE
    /\ refreshing = FALSE
    /\ fetches = 1
    /\ attempts = [a \in Slots |-> Idle]
    /\ issued = MaxTargets
    /\ catalog \in SUBSET Keys
    /\ lastAlert = "none"
    /\ deletes = <<>>
    /\ resolves = <<>>
    /\ PlayerInit

NextCatalog ==
    \/ OpenModal
    \/ CloseModal
    \/ PullRefresh
    \/ \E ok \in BOOLEAN : \E vs \in SUBSET catalog : FetchReturns(ok, vs)
    \/ \E id \in Keys : handleVideoPress(id)
    \/ \E i \in 1..MaxRequests : \E ok \in BOOLEAN : PlaybackURLReturns(i, ok)
    \/ \E id \in Keys : \E choice \in {"cancel", "delete"} : handleDeleteVideo(id, choice)
    \/ \E i \in 1..MaxRequests : \E ok \in BOOLEAN : DeleteReturns(i, ok)

SpecCatalog == InitCatalog /\ [][NextCatalog]_vars

\* The player screen.
NextPlayer ==
    \/ handleScreenTap
    \/ \E t \in Timers : TimerFires(t)
    \/ \E ps \in Statuses : onPlaybackStatusUpdate(ps)
    \/ togglePlayPause
    \/ changePlaybackRate
    \/ toggleMute
    \/ \E i \in 1..MaxCommands : \E ok \in BOOLEAN : CommandReturns(i, ok)

SpecPlayer == Init /\ [][NextPlayer]_vars

\* A timer that stays pending fires when its delay has elapsed.
FairSpecPlayer == Init /\ [][NextPlayer]_vars /\ WF_vars(\E t \in Timers : TimerFires(t))

\* The statuses of a video of known or unknown duration at some positions.
StatusesAt(positions, durations) ==
    {NoStatus} \cup
    {st \in [isLoaded : {TRUE}, shouldPlay : BOOLEAN,
             positionMillis : positions, durationMillis : durations] :
        st.durationMillis # 0 => st.positionMillis <= st.durationMillis}

\* The seek bar: the track is measured, tapped, and the engine reports.
Widths == {0, 200}
Offsets == {0 - 10, 0, 50, 200, 250}
SeekStatuses == StatusesAt({0, 75000}, {0, 150000})

NextSeek ==
    \/ \E w \in Widths : handleProgressBarLayout(w)
    \/ \E x \in Offsets : handleSeek(x)
    \/ \E ps \in SeekStatuses : onPlaybackStatusUpdate(ps)
    \/ \E i \in 1..MaxCommands : \E ok \in BOOLEAN : CommandReturns(i, ok)

SpecSeek == Init /\ [][NextSeek]_vars

\* The progress of the playback: the engine reports positions and durations.
Positions == {0, 999, 9000, 59999, 60000, 75000, 150000, 605000, 3599000, 3600000}
Durations == {0, 150000, 3600000}
ProgressStatuses == StatusesAt(Positions, Durations)

NextProgress ==
    \/ \E ps \in ProgressStatuses : onPlaybackStatusUpdate(ps)
    \/ handleScreenTap
    \/ \E t \in Timers : TimerFires(t)

SpecProgress == Init /\ [][NextProgress]_vars

(***************************************************************************)
(* Properties of the upload pipeline.                                      *)
(***************************************************************************)
Phases == <<"acquire", "transfer", "commit">>
Used == {a \in Slots : attempts[a].pc # "idle"}
Ops(a, op) == {i \in 1..Len(attempts[a].calls) : attempts[a].calls[i].op = op}
TransferSucceeded(a) ==
    /\ attempts[a].uploadData # NoData
    /\ ~attempts[a].transfer.threw
    /\ attempts[a].transfer.status = 200

\* C1: commit-metadata is called in an attempt only after that attempt's
\* transfer returned success; an attempt whose acquire or transfer failed has
\* made no commit call.
C1_CommitOnlyAfterTransferSuccess ==
    \A a \in Slots :
        /\ Ops(a, "commit") # {} => TransferSucceeded(a)
        /\ attempts[a].failedAt \in {"acquire", "transfer"} => Ops(a, "commit") = {}

C1_Witness ==
    \E a \in Slots :
        /\ attempts[a].failedAt = "transfer"
        /\ attempts[a].transfer.status = 500
        /\ Ops(a, "commit") = {}

\* C2: the remote calls of one handleUpload invocation are a prefix of
\* acquire, transfer, commit: each is made at most once, in that order, each
\* only after the previous one returned success, and a completed attempt has
\* made exactly the three.
C2_CallsArePrefixOfPhases ==
    \A a \in Used :
        LET n == Len(attempts[a].calls) IN
        /\ n \in 1..3
        /\ CallOps(a) = SubSeq(Phases, 1, n)
        /\ n >= 2 => attempts[a].uploadData # NoData
        /\ n = 3 => TransferSucceeded(a)
        /\ attempts[a].pc = "done" => n = 3
        /\ attempts[a].pc \in InFlightPcs => attempts[a].pc = Phases[n]
        /\ attempts[a].pc = "failed" => attempts[a].failedAt = Phases[n]

C2_Witness ==
    /\ \E a \in Slots : attempts[a].pc = "done" /\ CallOps(a) = Phases
    /\ issued = 2

\* C7: the transfer counts as succeeded exactly when it reports status 200:
\* with any other status, 204 included, the attempt fails at the transfer
\* and never reaches commit.
C7_TransferSucceedsOnlyOn200 ==
    \A a \in Slots :
        LET t == attempts[a].transfer IN
        (t # NoTransfer) =>
            /\ (~t.threw /\ t.status = 200) <=>
                   (attempts[a].pc \in {"commit", "done"} \/ attempts[a].failedAt = "commit")
            /\ (t.threw \/ t.status # 200) <=>
                   (attempts[a].pc = "failed" /\ attempts[a].failedAt = "transfer"
                    /\ Ops(a, "commit") = {})

C7_Witness ==
    \E a \in Slots :
        /\ attempts[a].transfer = [threw |-> FALSE, status |-> 204]
        /\ attempts[a].pc = "failed"
        /\ Ops(a, "commit") = {}

Starts(a) == attempts[a].pc \notin InFlightPcs /\ attempts'[a].pc \in InFlightPcs
Completes(a) == attempts[a].pc \in InFlightPcs /\ attempts'[a].pc = "done"
Fails(a) == attempts[a].pc \in InFlightPcs /\ attempts'[a].pc = "failed"

\* C3: with no file selected or a title that is empty once trimmed,
\* handleUpload starts no attempt and makes no remote call, and it leaves
\* uploading, progress, the selected file and the title as they were.
C3_InvalidSubmitRejected ==
    [][/\ (selectedVideo = NoFile \/ Trim(uploadTitle) = <<>>) =>
              \A a \in Slots : ~Starts(a)
       /\ (lastAlert' = "validation-error" /\ lastAlert # "validation-error") =>
              /\ selectedVideo = NoFile \/ Trim(uploadTitle) = <<>>
              /\ UNCHANGED <<uploading, uploadProgress, selectedVideo, uploadTitle,
                             showUploadModal, attempts, serverVars, catalogVars>>]_vars

C3_Witness ==
    /\ lastAlert = "validation-error"
    /\ selectedVideo \in Files
    /\ uploadTitle = <<" ">>
    /\ \A a \in Slots : attempts[a] = Idle
    /\ issued = 0

C6_FailureAbortsAttempt ==
    /\ [](\A a \in Slots : attempts[a].pc = "failed" =>
             /\ attempts[a].alert = "error"
             /\ attempts[a].refreshes = 0
             /\ attempts[a].failedAt \in {"acquire", "transfer", "commit"}
             /\ Phases[Len(attempts[a].calls)] = attempts[a].failedAt)
    /\ [][\A a \in Slots : Fails(a) =>
             /\ attempts'[a].failedAt = attempts[a].pc
             /\ attempts'[a].calls = attempts[a].calls
             /\ uploadProgress' = 0
             /\ ~uploading'
             /\ lastAlert' = "upload-error"
             /\ UNCHANGED <<fetches, loading, videos, catalog, uploadTitle,
                            selectedVideo, showUploadModal>>]_vars

C6_Witness ==
    \E a \in Slots :
        /\ attempts[a].pc = "failed"
        /\ attempts[a].transfer = [threw |-> FALSE, status |-> 500]
        /\ CallOps(a) = <<"acquire", "transfer">>
        /\ lastAlert = "upload-error"
        /\ uploadProgress = 0 /\ ~uploading

\* C8: at most one upload pipeline is in flight, and while one is in flight
\* uploading is true, which disables the Upload button.
C8_AtMostOnePipeline ==
    /\ Cardinality(InFlight) <= 1
    /\ InFlight # {} <=> uploading

C8_Witness ==
    /\ Cardinality(InFlight) = 1
    /\ showUploadModal
    /\ selectedVideo \in Files
    /\ Trim(uploadTitle) # <<>>
    /\ issued = 1

\* C9: once handleUpload has started an attempt nothing cancels it: closing
\* the dialog leaves the attempt and the uploading flag alone, and, every
\* remote call returning, each attempt in flight ends done or failed and
\* uploading becomes false with progress 0.
C9_UploadRunsToCompletion ==
    /\ [][(showUploadModal /\ ~showUploadModal' /\ \A a \in Slots : ~Completes(a)) =>
             UNCHANGED <<attempts, uploading, uploadProgress>>]_vars
    /\ \A a \in Slots :
           (attempts[a].pc \in InFlightPcs) ~> (attempts[a].pc \in {"done", "failed"})
    /\ uploading ~> (~uploading /\ uploadProgress = 0)

C9_Witness ==
    /\ uploading
    /\ ~showUploadModal
    /\ \E a \in Slots : attempts[a].pc = "commit"

\* C10 as claimed: after the user dismisses the dialog the session is idle.
C10_Claimed_DismissalResetsSession ==
    [][(showUploadModal /\ ~showUploadModal' /\ \A a \in Slots : ~Completes(a)) =>
          /\ ~uploading'
          /\ uploadProgress' = 0
          /\ selectedVideo' = NoFile
          /\ uploadTitle' = <<>>]_vars

\* C10: the session is reset to idle when an upload completes; dismissing
\* the dialog only hides it and leaves uploading, progress, the selected
\* file and the title as they were.
C10_OnlyCompletionResetsSession ==
    [][/\ (showUploadModal /\ ~showUploadModal' /\ \A a \in Slots : ~Completes(a)) =>
              UNCHANGED <<uploading, uploadProgress, selectedVideo, uploadTitle>>
       /\ (\E a \in Slots : Completes(a)) =>
              /\ ~uploading' /\ uploadProgress' = 0
              /\ selectedVideo' = NoFile /\ uploadTitle' = <<>>]_vars

C10_Witness ==
    /\ ~showUploadModal
    /\ selectedVideo \in Files
    /\ uploadTitle # <<>>
    /\ \A a \in Slots : attempts[a].pc \notin {"done", "failed"}

(***************************************************************************)
(* Properties of the catalog and of the file selection.                    *)
(***************************************************************************)
\* A deleteVideo call returned and the server still holds what it held: the
\* call failed.
DeleteFails == Len(deletes') < Len(deletes) /\ catalog' = catalog

\* C12: a failed catalog refresh and a failed deletion leave the displayed
\* list as it was and raise an error alert; a failed deletion starts no
\* refresh of the list.
C12_FailureKeepsList ==
    [][/\ FetchReturns(FALSE, {}) =>
            /\ videos' = videos
            /\ lastAlert' = "load-error"
       /\ DeleteFails =>
            /\ videos' = videos
            /\ lastAlert' = "delete-error"
            /\ fetches' = fetches
            /\ loading' = loading
            /\ refreshing' = refreshing]_vars

C12_Witness ==
    /\ lastAlert = "delete-error"
    /\ videos # {}
    /\ deletes = <<>>
    /\ fetches = 0

\* C13: a cancelled file selection starts nothing and is no error: the file
\* selected before stays selected, no alert is raised, uploading stays false
\* and no remote call is made.
C13_CancelledSelectionIsNoOp ==
    [][selectVideo("cancelled") =>
          /\ ~uploading'
          /\ UNCHANGED <<selectedVideo, lastAlert, uploading, attempts, fetches,
                         deletes, resolves, serverVars>>]_vars

C13_Witness ==
    /\ showUploadModal
    /\ ~SelectDisabled
    /\ selectedVideo \in Files
    /\ lastAlert = "none"
    /\ InFlight = {}

(***************************************************************************)
(* Properties of the error handling.                                       *)
(***************************************************************************)
ErrorAlerts ==
    {"upload-error", "load-error", "playback-error", "delete-error", "select-error"}

\* The failures of the remote calls of HomeScreen each raise an error alert.
HomeFailuresNotified ==
    /\ (\E a \in Slots : Fails(a)) => lastAlert' = "upload-error"
    /\ FetchReturns(FALSE, {}) => lastAlert' = "load-error"
    /\ (\E i \in 1..MaxRequests : PlaybackURLReturns(i, FALSE)) => lastAlert' = "playback-error"
    /\ DeleteFails => lastAlert' = "delete-error"

\* The failures of the engine commands of the player each raise an error
\* alert and none is left unhandled.
EngineFailuresNotified ==
    (\E i \in 1..MaxCommands : CommandReturns(i, FALSE)) =>
        /\ lastAlert' \in ErrorAlerts
        /\ ~unhandled'

\* C11: every failure of an asynchronous operation (acquire, transfer,
\* commit, catalog listing, playback-url resolution, deletion, and the engine
\* commands of the player) is caught and raises an alert; none is swallowed
\* or left unhandled.
C11_Claimed_EveryFailureNotified ==
    [][HomeFailuresNotified /\ EngineFailuresNotified]_vars

(***************************************************************************)
(* Properties of the playback controller.                                  *)
(***************************************************************************)
\* C14: at most one controls-hide timer is pending in every reachable state;
\* a step that arms a timer leaves that timer alone pending, and the callback
\* of a timer leaves none pending, so that no second hide follows it.
C14_AtMostOneHideTimer ==
    /\ [](Cardinality(timers) <= 1)
    /\ [][/\ timers' \ timers # {} => Cardinality(timers') = 1
          /\ (\E t \in Timers : TimerFires(t)) => timers' = {}]_vars

C14_Witness ==
    /\ Cardinality(timers) = 1
    /\ timeout \in {t.id : t \in timers}

\* C15: a hide timer is pending only while the controls are shown and the
\* video is not loading; the callback of a timer always finds the controls
\* shown and hides them.
C15_NoStaleHideCallback ==
    /\ [](timers # {} => showControls /\ ~isLoading)
    /\ [][\A t \in Timers : TimerFires(t) => showControls /\ ~showControls']_vars

C15_Witness ==
    /\ ~isLoading
    /\ ~showControls
    /\ timers = {}

\* C16: whenever the controls are shown and the video is not loading, one
\* single-shot timer of 3000 ms is armed, and the controls get hidden
\* (showControls false, opacity target 0) once it has elapsed.
C16_ShownControlsAutoHide ==
    /\ [](showControls /\ ~isLoading => \E t \in Timers : timers = {t} /\ t.ms = 3000)
    /\ (showControls /\ ~isLoading) ~> (~showControls /\ controlsOpacity = 0)

C16_Witness ==
    /\ showControls
    /\ ~isLoading
    /\ \E t \in timers : t.ms = 3000

\* C17: a tap on the player surface while the video is not loading flips
\* showControls; showing arms a fresh hide timer, hiding leaves no timer
\* pending; a tap while loading changes neither showControls nor the timer.
C17_TapTogglesControls ==
    [][handleScreenTap =>
          IF isLoading
          THEN UNCHANGED <<showControls, controlsOpacity, timers, timeout>>
          ELSE /\ showControls' = ~showControls
               /\ showControls' => timers = {} /\ Cardinality(timers') = 1
               /\ ~showControls' => timers' = {}]_vars

C17_Witness ==
    /\ ~isLoading
    /\ ~showControls
    /\ controlsOpacity = 0
    /\ timeout = 0

\* A step that issues one more engine command: the command issued.
Issues == Len(commands') = Len(commands) + 1
Issued == commands'[Len(commands')]

\* C18: before a loaded status the play/pause toggle issues no engine command
\* and changes no state; once loaded, a toggle while playing issues exactly
\* one pause command and its acknowledgement sets the transport flag to
\* paused, a toggle while paused issues exactly one play command and its
\* acknowledgement sets the flag to playing.
C18_ToggleOnlyOnceLoaded ==
    [][/\ togglePlayPause =>
            IF status.isLoaded
            THEN /\ commands' = Append(commands, Issued)
                 /\ Issued.op = (IF isPlaying THEN "pause" ELSE "play")
                 /\ UNCHANGED <<isPlaying, isLoading, status>>
            ELSE UNCHANGED vars
       /\ Issues /\ Issued.op \in ToggleOps => status.isLoaded
       /\ \A i \in 1..Len(commands) :
            CommandReturns(i, TRUE) /\ commands[i].op \in ToggleOps =>
                isPlaying' = (commands[i].op = "play")]_vars

C18_Witness ==
    /\ status.isLoaded
    /\ commands = <<>>
    /\ reported = "none"
    /\ ~isPlaying

\* C19: once every engine command issued has been acknowledged and a loaded
\* status has been processed after that, the transport flag shown equals the
\* play intent of that status, and stays so until the next toggle.
C19_EngineIsGroundTruth ==
    commands = <<>> /\ reported # "none" => isPlaying = (reported = "play")

C19_Witness ==
    /\ commands = <<>>
    /\ reported = "pause"
    /\ ~isPlaying
    /\ ~status.isLoaded

\* C20: the controller starts loading, with the controls shown, rate 1.0 and
\* not muted; it stops loading exactly when the first loaded status is
\* processed, playing if that status has shouldPlay and paused otherwise; a
\* status that is not loaded leaves it loading; it never loads again.
C20_LoadingLeftOnFirstLoadedStatus ==
    /\ (isLoading = TRUE /\ showControls = TRUE /\ playbackRate = 100 /\ isMuted = FALSE)
    /\ [][/\ \A ps \in Statuses :
                onPlaybackStatusUpdate(ps) /\ isLoading =>
                    /\ isLoading' = ~ps.isLoaded
                    /\ ps.isLoaded => isPlaying' = ps.shouldPlay
          /\ isLoading /\ ~isLoading' => status'.isLoaded /\ isPlaying' = status'.shouldPlay
          /\ ~isLoading => ~isLoading']_vars

C20_Witness ==
    /\ ~isLoading
    /\ ~status.isLoaded
    /\ ~isPlaying

(***************************************************************************)
(* Properties of the seek bar, the rate, the mute flag and the progress.   *)
(***************************************************************************)
\* The offset x held within the track of width w.
Clamped(x, w) == IF x < 0 THEN 0 ELSE IF x > w THEN w ELSE x

\* C21: with a track measured wider than 0 and a known duration above 0, a
\* tap at any offset requests the position clamp(offset / width, 0, 1) *
\* durationMillis, which lies in [0, durationMillis]; a tap at offset 0
\* requests 0 and a tap at offset = width requests durationMillis.
C21_SeekTargetClamped ==
    [][\A x \in Offsets :
          handleSeek(x) /\ progressBarWidth > 0 /\ status.isLoaded
                        /\ status.durationMillis > 0 =>
              /\ Issues
              /\ Issued.op = "setPosition"
              /\ Issued.arg * progressBarWidth =
                     Clamped(x, progressBarWidth) * status.durationMillis * Issued.den
              /\ 0 <= Issued.arg
              /\ Issued.arg <= status.durationMillis * Issued.den
              /\ x = 0 => Issued.arg = 0
              /\ x = progressBarWidth =>
                     Issued.arg = status.durationMillis /\ Issued.den = 1]_vars

C21_Witness ==
    \E i \in 1..Len(commands) :
        /\ commands[i].op = "setPosition"
        /\ commands[i].arg = 150000
        /\ commands[i].den = 1

\* C22: a tap on the seek track is a no-op when the measured width is 0, the
\* duration is 0 or unknown, or the media is not loaded: no seek command is
\* issued and no state changes; in every other case the tap issues exactly
\* one seek command.
C22_SeekNoOpOrOneCommand ==
    [][/\ \A x \in Offsets :
            handleSeek(x) =>
                IF progressBarWidth = 0 \/ status.durationMillis = 0 \/ ~status.isLoaded
                THEN UNCHANGED vars
                ELSE /\ commands' = Append(commands, Issued)
                     /\ Issued.op = "setPosition"
       /\ Issues /\ Issued.op = "setPosition" =>
            progressBarWidth # 0 /\ status.durationMillis # 0 /\ status.isLoaded]_vars

C22_Witness ==
    /\ Len(commands) = 1
    /\ commands[1].op = "setPosition"
    /\ progressBarWidth = 0

\* The successor of a rate in the cycle 0.5, 0.75, 1.0, 1.25, 1.5, 2.0.
RateSuccessor(r) ==
    CASE r = 50  -> 75
      [] r = 75  -> 100
      [] r = 100 -> 125
      [] r = 125 -> 150
      [] r = 150 -> 200
      [] r = 200 -> 50

\* C23: playbackRate is always one of the six rates; every rate gesture sets
\* it to the successor of its value in the cycle (1.0 to 1.25, 2.0 to 0.5),
\* whatever the state and whatever the engine answers, and six gestures in a
\* row give the rate they started from.
C23_RateCyclesThroughSet ==
    /\ [](/\ playbackRate \in {50, 75, 100, 125, 150, 200}
          /\ NextRate(NextRate(NextRate(NextRate(NextRate(NextRate(playbackRate))))))
                 = playbackRate)
    /\ [][/\ changePlaybackRate => playbackRate' = RateSuccessor(playbackRate)
          /\ (\E i \in 1..MaxCommands : \E ok \in BOOLEAN : CommandReturns(i, ok)) =>
                 playbackRate' = playbackRate]_vars

C23_Witness ==
    /\ playbackRate = 50
    /\ ~status.isLoaded

C25_Claimed_RatioFollowsEveryStatus ==
    [][/\ \A ps \in ProgressStatuses :
            onPlaybackStatusUpdate(ps) /\ ps.durationMillis > 0 =>
                /\ progressValue' = Ratio(ps.positionMillis, ps.durationMillis)
                /\ 0 <= progressValue'.num
                /\ progressValue'.num <= progressValue'.den
       /\ progressValue' # progressValue =>
            \E ps \in ProgressStatuses : onPlaybackStatusUpdate(ps)]_vars

\* What the claim says formatTime gives: the minutes in decimal, a colon,
\* the seconds in two digits.
ClaimedTime(millis) ==
    NumberToString(millis \div 60000) \o <<":">> \o
        <<Digits[(((millis \div 1000) % 60) \div 10) + 1],
          Digits[(((millis \div 1000) % 60) % 10) + 1]>>

\* C26: formatTime(millis) is floor(millis / 60000) in decimal, a colon, and
\* floor(millis / 1000) mod 60 in exactly two digits, with no hour part:
\* 75000 gives 1:15, 150000 gives 2:30, 3600000 gives 60:00.
C26_FormatTimeMinutesSeconds ==
    \A m \in {status.positionMillis, status.durationMillis} :
        /\ formatTime(m) = ClaimedTime(m)
        /\ m = 75000 => formatTime(m) = <<"1", ":", "1", "5">>
        /\ m = 150000 => formatTime(m) = <<"2", ":", "3", "0">>
        /\ m = 3600000 => formatTime(m) = <<"6", "0", ":", "0", "0">>

C26_Witness ==
    /\ status.positionMillis = 9000
    /\ PositionText = <<"0", ":", "0", "9">>
    /\ DurationText = <<"6", "0", ":", "0", "0">>

\* C27: a status whose loaded flag and play intent are what the controller
\* already shows, carrying only a position and a duration, leaves the
\* transport state, the rate, the mute flag, the controls and the pending
\* hide timer as they were, while loading, playing or paused.
C27_PositionStatusKeepsState ==
    [][\A ps \in ProgressStatuses :
          /\ onPlaybackStatusUpdate(ps)
          /\ ps.isLoaded = ~isLoading
          /\ ps.isLoaded => ps.shouldPlay = isPlaying
          => UNCHANGED <<isLoading, isPlaying, playbackRate, isMuted, showControls,
                         controlsOpacity, timers, timeout>>]_vars

C27_Witness ==
    /\ ~isLoading
    /\ isPlaying
    /\ status.positionMillis = 75000
    /\ timers # {}

\* C28: the seek request of a tap depends on the offset, the measured width
\* and the duration only: a state that differs in positionMillis alone (the
\* progress ratio is not read at all) gives the same request for every tap.
C28_SeekIgnoresPosition ==
    \A x \in Offsets : \A p \in Positions :
        SeekRequest(x, progressBarWidth, [status EXCEPT !.positionMillis = p])
            = SeekRequest(x, progressBarWidth, status)

C28_Witness ==
    /\ progressBarWidth = 200
    /\ status.isLoaded
    /\ status.durationMillis = 150000
    /\ status.positionMillis = 75000
    /\ progressValue = Ratio(1, 2)
    /\ commands # <<>>

(***************************************************************************)
(* Properties of the values an upload uses.                                *)
(***************************************************************************)
\* C29: an attempt transfers to the url its own acquire call returned, a url
\* no earlier call was given, the file selected when it was submitted, and
\* commits the trimmed title of that moment with the storage key of the same
\* acquire call.
C29_AttemptUsesOwnTarget ==
    /\ [](\A a \in Used : \A i \in 1..Len(attempts[a].calls) :
            LET call == attempts[a].calls[i] IN
            /\ call.op = "transfer" =>
                /\ attempts[a].uploadData # NoData
                /\ call.url = attempts[a].uploadData.url
                /\ call.file = attempts[a].file
            /\ call.op = "commit" =>
                /\ call.title = Trim(attempts[a].title)
                /\ call.filename = attempts[a].uploadData.filename)
    /\ [][\A a \in Slots :
            /\ Starts(a) =>
                /\ attempts'[a].file = selectedVideo
                /\ attempts'[a].title = uploadTitle
            /\ attempts[a].pc = "acquire" /\ attempts'[a].pc = "transfer" =>
                /\ attempts'[a].uploadData.url > issued
                /\ attempts'[a].uploadData.filename > issued
                /\ issued' = attempts'[a].uploadData.url
            /\ attempts[a].pc \in InFlightPcs /\ ~Starts(a) =>
                /\ attempts'[a].file = attempts[a].file
                /\ attempts'[a].title = attempts[a].title]_vars

C29_Witness ==
    \E a \in Slots :
        /\ attempts[a].pc = "done"
        /\ attempts[a].uploadData.url = 2
        /\ attempts[a].title = <<" ", "a", " ">>
        /\ attempts[a].calls[3].title = <<"a">>
        /\ attempts[a].calls[3].filename = 2

\* C30: the upload progress is always one of 0, 20, 40, 80, 100 and is not 0
\* only while uploading is true; uploading is true exactly while an attempt
\* is between its start and its completion or failure.
C30_ProgressOnlyWhileUploading ==
    /\ uploadProgress \in {0, 20, 40, 80, 100}
    /\ uploadProgress # 0 => uploading
    /\ uploading <=> InFlight # {}

C30_Witness ==
    /\ uploading
    /\ uploadProgress = 80
    /\ \E a \in Slots : attempts[a].pc = "commit"

(***************************************************************************)
(* Retry after a failed upload.                                            *)
(***************************************************************************)
\* C31 as claimed: after a failed attempt the selected file, the title and
\* the open state of the dialog are what they were when it was submitted
\* (the dialog was open: the Upload button is inside it).
C31_Claimed_FailureKeepsSubmitTimeInput ==
    [][\A a \in Slots : Fails(a) =>
          /\ selectedVideo' = attempts[a].file
          /\ uploadTitle' = attempts[a].title
          /\ showUploadModal' = TRUE]_vars

\* C31: the failure of an attempt leaves the selected file, the title and
\* the open state of the dialog as they are; the file and the title are
\* those of submit time, so the Upload button is enabled again, while the
\* dialog may have been closed by the user in between.  The next submit
\* starts at the acquire phase with no target, and the target it is given
\* is one no earlier attempt had.
C31_FailureKeepsInputForRetry ==
    [][\A a \in Slots :
          /\ Fails(a) =>
                /\ UNCHANGED <<selectedVideo, uploadTitle, showUploadModal>>
                /\ selectedVideo' = attempts[a].file
                /\ uploadTitle' = attempts[a].title
                /\ ~UploadDisabled'
          /\ Starts(a) =>
                /\ attempts'[a].pc = "acquire"
                /\ attempts'[a].calls = <<AcquireCall>>
                /\ attempts'[a].uploadData = NoData
          /\ attempts[a].pc = "acquire" /\ attempts'[a].pc = "transfer" =>
                /\ attempts'[a].uploadData.url > issued
                /\ \A b \in Slots : attempts'[a].uploadData # attempts[b].uploadData]_vars

C31_Witness ==
    /\ lastAlert = "upload-error"
    /\ showUploadModal
    /\ \E a \in Slots :
          /\ attempts[a].pc = "transfer"
          /\ attempts[a].uploadData.url = 2
          /\ attempts[a].file = selectedVideo
          /\ attempts[a].title = uploadTitle

(***************************************************************************)
(* Controls while the video loads.                                         *)
(***************************************************************************)
\* C32: while the video is loading the controls are shown, no hide timer is
\* pending, and no step hides the controls.
C32_LoadingShowsControls ==
    /\ [](isLoading => (showControls /\ controlsOpacity = 1 /\ timers = {}))
    /\ [][isLoading => showControls' = showControls]_vars

C32_Witness ==
    /\ isLoading
    /\ showControls
    /\ timers = {}
    /\ status = NoStatus
    /\ playbackRate = 200

(***************************************************************************)
(* Overlapping play/pause toggles.                                         *)
(***************************************************************************)
\* The commands in flight after the i-th one is settled.
Without(i) == SubSeq(commands, 1, i - 1) \o SubSeq(commands, i + 1, Len(commands))

\* C33 as claimed: a toggle issued while another toggle is in flight sends
\* the opposite command, and every acknowledged toggle flips the transport
\* flag.
C33_Claimed_OverlappingTogglesAlternate ==
    [][/\ (Issues /\ Issued.op \in ToggleOps) =>
             \A i \in 1..Len(commands) :
                commands[i].op \in ToggleOps => Issued.op # commands[i].op
       /\ \A i \in 1..Len(commands) :
             (/\ commands' = Without(i)
              /\ commands[i].op \in ToggleOps
              /\ ~unhandled') => isPlaying' = ~isPlaying]_vars
====
